---- MODULE Spec2Model ----
(***************************************************************************)
(* State-machine model of linked-list-rs: the singly linked list of        *)
(* src/single.rs (Box-owned chain plus a length counter) and the doubly    *)
(* linked list of src/doubly.rs (Rc-owned forward chain, Weak back links   *)
(* and Weak tail, plus a length counter).                                  *)
(*                                                                         *)
(* Option<X> is modelled as a sequence of length 0 (None) or 1 (Some(x)).  *)
(* A Box<Node<T>> is a value: the record [data, next] with next again an   *)
(* Option of such a record.  Rc/Weak need identity, so the doubly list     *)
(* lives in a heap: a function from node ids to [data, prev, next].        *)
(***************************************************************************)
EXTENDS Integers, Sequences, FiniteSets, TLC

\* ---------------------------------------------------------------- bounds
\* Largest element value pushed; elements are drawn from 1..MaxVal.
MaxVal == 2
\* Largest number of nodes / largest length counter the model lets a list reach.
MaxLen == 3
\* How many times next() is called again once an iterator has returned None.
MaxNones == 2

Values == 1..MaxVal

\* ---------------------------------------------------------------- Option
None == <<>>
Some(x) == <<x>>

\* usize::saturating_sub
saturating_sub(a, b) == IF a >= b THEN a - b ELSE 0

VARIABLES
  lib,        \* which of the two independent components this run exercises
  slist,      \* single::LinkedList  [head, length]
  iter,       \* Option<single::Iter>: the iterator currently borrowing slist
  it_out,     \* what the live iterator has returned so far, in order
  dlist,      \* doubly::LinkedList  [head, tail, length]
  heap,       \* the Rc allocations of the doubly list: id -> [data, prev, next]
  panicked,   \* a call has panicked (unwrap on a failed Rc::try_unwrap)
  op,         \* name of the last operation called
  ret,        \* what the last operation returned (None for unit)
  pre,        \* the list handle as it was before the last operation
  model,      \* the abstract sequence the calls so far describe
  m_ret,      \* what the abstract sequence says the last call returns
  count,      \* pushes/appends minus pops that returned Some, since new()/clear()
  dr_mode,    \* drain scenario: "none", or the insertion used ("append"/"push")
  dr_in,      \* drain scenario: the values inserted, in call order
  dr_out,     \* drain scenario: what the pops returned, in call order
  drop_depth  \* deepest nesting of node destructors reached during the last call

vars == <<lib, slist, iter, it_out, dlist, heap, panicked, op, ret, pre,
          model, m_ret, count, dr_mode, dr_in, dr_out, drop_depth>>

\* ============================================================ src/single.rs

\* Node::new
single_Node_new(data) == [data |-> data, next |-> None]

\* LinkedList::new
single_new == [head |-> None, length |-> 0]

\* The number of nodes reachable from an Option<Box<Node>> by next links.
RECURSIVE single_nodes(_)
single_nodes(o) == IF o = None THEN 0 ELSE 1 + single_nodes(o[1].next)

\* The elements head to tail.
RECURSIVE single_elems(_)
single_elems(o) == IF o = None THEN <<>> ELSE <<o[1].data>> \o single_elems(o[1].next)

\* Mutant of push: the new node does not take over the old head.
single_push_drops_rest(self, elem) ==
  [head |-> Some([data |-> elem, next |-> None]), length |-> self.length + 1]

\* LinkedList::push
single_push(self, elem) ==
  LET new_node == [data |-> elem, next |-> self.head]
  IN  [head |-> Some(new_node), length |-> self.length + 1]

\* The cursor loop of append: walk to the first None link and store there.
RECURSIVE single_append_at(_, _)
single_append_at(cursor, new_node) ==
  IF cursor = None
    THEN Some(new_node)
    ELSE Some([cursor[1] EXCEPT !.next = single_append_at(cursor[1].next, new_node)])

\* Mutant of append: the counter is not incremented.
single_append_no_count(self, elem) ==
  [head |-> single_append_at(self.head, single_Node_new(elem)), length |-> self.length]

\* LinkedList::append
single_append(self, elem) ==
  LET new_node == single_Node_new(elem)
  IN  [head |-> single_append_at(self.head, new_node), length |-> self.length + 1]

\* Mutant of pop: the counter is decremented whether or not a node was taken.
single_pop_unguarded(self) ==
  IF self.head = None
    THEN [self |-> [self EXCEPT !.length = self.length - 1], res |-> None]
    ELSE [self |-> [head |-> self.head[1].next, length |-> self.length - 1],
          res |-> Some(self.head[1].data)]

\* LinkedList::pop
single_pop(self) ==
  IF self.head = None
    THEN [self |-> self, res |-> None]
    ELSE LET node == self.head[1]
         IN  [self |-> [head |-> node.next,
                        length |-> saturating_sub(self.length, 1)],
              res |-> Some(node.data)]

\* Mutant of the cursor loop of pop_back: the cursor is never advanced.
single_take_here(cursor) == [link |-> None, taken |-> cursor]

\* The cursor loop of pop_back on a Some cursor: advance while the node under
\* the cursor has a successor, then take() the cursor.  `link` is the chain
\* with the cursor's slot emptied, `taken` the node taken out of it.
RECURSIVE single_take_last(_)
single_take_last(cursor) ==
  IF cursor[1].next # None
    THEN LET r == single_take_last(cursor[1].next)
         IN  [link |-> Some([cursor[1] EXCEPT !.next = r.link]), taken |-> r.taken]
    ELSE [link |-> None, taken |-> cursor]

\* LinkedList::pop_back
single_pop_back(self) ==
  IF self.head = None
    THEN [self |-> self, res |-> None]
    ELSE LET r   == single_take_last(self.head)
             res == IF r.taken = None THEN None ELSE Some(r.taken[1].data)
             \* `let _ = self.length.saturating_sub(1);` computes and discards
         IN  [self |-> [head |-> r.link, length |-> self.length], res |-> res]

\* LinkedList::len
single_len(self) == self.length

\* Mutant of clear: the counter is not reset.
single_clear_keeps_length(self) == [head |-> None, length |-> self.length]

\* LinkedList::clear
single_clear(self) == [head |-> None, length |-> 0]

\* LinkedList::is_empty
single_is_empty(self) == self.length = 0

\* LinkedList::iter
single_iter(self) == [next |-> IF self.head = None THEN None ELSE Some(self.head[1])]

\* Mutant of Iter::next: the iterator is not advanced.
Iter_next_stuck(it) ==
  IF it.next = None
    THEN [it |-> it, res |-> None]
    ELSE [it |-> it, res |-> Some(it.next[1].data)]

\* Iter::next
Iter_next(it) ==
  IF it.next = None
    THEN [it |-> it, res |-> None]
    ELSE LET node == it.next[1]
         IN  [it |-> [next |-> IF node.next = None THEN None ELSE Some(node.next[1])],
              res |-> Some(node.data)]

\* Drop glue of Option<Box<Node<T>>> (Node has no Drop impl): dropping a node
\* drops its next field from inside, so the destructors nest one level per
\* node of the chain.  The value is the deepest nesting reached.
RECURSIVE single_drop_depth(_)
single_drop_depth(o) == IF o = None THEN 0 ELSE 1 + single_drop_depth(o[1].next)

\* The node pop or pop_back took out, if any, is destroyed after its data was
\* moved out, with its next link None.
single_taken_drop_depth(res) ==
  IF res = None THEN 0 ELSE single_drop_depth(Some(single_Node_new(res[1])))

\* `{:?}` of an element (the tests' i32: its decimal digits).
debug_fmt(x) == ToString(x)

\* Mutant of the loop of fmt: the arrow is written between elements only.
RECURSIVE single_fmt_from_joined(_)
single_fmt_from_joined(current) ==
  IF current = None THEN ""
  ELSE IF current[1].next = None THEN debug_fmt(current[1].data) \o " "
  ELSE debug_fmt(current[1].data) \o " -> " \o single_fmt_from_joined(current[1].next)

\* The loop of fmt: what is written for the chain from `current` on.
RECURSIVE single_fmt_from(_)
single_fmt_from(current) ==
  IF current = None THEN ""
  ELSE debug_fmt(current[1].data) \o " -> " \o single_fmt_from(current[1].next)

\* impl Debug for LinkedList: fmt
single_fmt(self) == single_fmt_from(self.head) \o "End"

\* ============================================================ src/doubly.rs

\* Node ids the allocator can hand out.
NodeIds == 1..(MaxLen + 1)

\* LinkedList::new
doubly_new == [head |-> None, tail |-> None, length |-> 0]

\* Rc::strong_count of node n, counting the owners stored in the list: the
\* list's head and the next fields of live nodes (locals are counted by callers).
strong_count(self, h, n) ==
  (IF self.head = Some(n) THEN 1 ELSE 0)
    + Cardinality({m \in DOMAIN h : h[m].next = Some(n)})

\* Weak::upgrade: the node if it is still allocated.
upgrade(h, weak) == IF weak[1] \in DOMAIN h THEN Some(weak[1]) ELSE None

\* Drop glue of Rc: a node whose strong count reached zero is freed, which
\* drops the Rc in its next field, and so on down the chain.
RECURSIVE drop_unowned(_, _)
drop_unowned(self, h) ==
  LET dead == {n \in DOMAIN h : strong_count(self, h, n) = 0}
  IN  IF dead = {} THEN h
      ELSE drop_unowned(self, [n \in DOMAIN h \ dead |-> h[n]])

\* The nesting of the drop glue of Rc<Node<T>> (Node has no Drop impl): a
\* node freed because its owner's next field was dropped is destroyed from
\* inside its owner's destructor, one level deeper.
RECURSIVE doubly_drop_depth(_, _)
doubly_drop_depth(self, h) ==
  LET dead == {n \in DOMAIN h : strong_count(self, h, n) = 0}
  IN  IF dead = {} THEN 0
      ELSE 1 + doubly_drop_depth(self, [n \in DOMAIN h \ dead |-> h[n]])

\* The node pop_front or pop_back unwrapped, if any, is destroyed after its
\* data was moved out, with both links None.
doubly_unwrapped_drop_depth(res) == IF res = None THEN 0 ELSE 1

\* The ids some Weak still names: the tail and the prev fields of live nodes.
weak_targets(self, h) ==
  {n \in NodeIds : self.tail = Some(n) \/ \E m \in DOMAIN h : h[m].prev = Some(n)}

\* Rc::new picks an address no Rc or Weak is using.
free_ids(self, h) == NodeIds \ (DOMAIN h \cup weak_targets(self, h))
alloc(self, h) == CHOOSE n \in free_ids(self, h) : \A m \in free_ids(self, h) : n <= m

\* Node::new
doubly_Node_new(data) == [data |-> data, prev |-> None, next |-> None]

\* The heap with node n allocated holding r.
heap_with(h, n, r) == [m \in DOMAIN h \cup {n} |-> IF m = n THEN r ELSE h[m]]

\* The node ids reachable from an Option<Rc<Node>> by next links, in order
\* (fuel bounds the walk should the links ever form a cycle).
RECURSIVE doubly_chain(_, _, _)
doubly_chain(h, o, fuel) ==
  IF o = None \/ fuel = 0 \/ o[1] \notin DOMAIN h THEN <<>>
  ELSE <<o[1]>> \o doubly_chain(h, h[o[1]].next, fuel - 1)

\* The elements head to tail.
doubly_elems(self, h) ==
  LET c == doubly_chain(h, self.head, Cardinality(DOMAIN h))
  IN  [i \in 1..Len(c) |-> h[c[i]].data]

\* Mutant of push_front: the old head's prev link is not set to the new node.
doubly_push_front_no_prev(self, h, elem) ==
  LET n  == alloc(self, h)
      h1 == heap_with(h, n, doubly_Node_new(elem))
      l1 == [self EXCEPT !.length = self.length + 1]
  IN  IF l1.head # None
        THEN LET h2 == [h1 EXCEPT ![n].next = l1.head]
                 l2 == [l1 EXCEPT !.head = Some(n)]
             IN  [self |-> l2, heap |-> drop_unowned(l2, h2)]
        ELSE LET l2 == [l1 EXCEPT !.head = Some(n), !.tail = Some(n)]
             IN  [self |-> l2, heap |-> drop_unowned(l2, h1)]

\* Mutant of push_front: on an empty list the new node becomes head only.
doubly_push_front_no_tail(self, h, elem) ==
  LET n  == alloc(self, h)
      h1 == heap_with(h, n, doubly_Node_new(elem))
      l1 == [self EXCEPT !.length = self.length + 1]
  IN  IF l1.head # None
        THEN LET old_head == l1.head[1]
                 h2 == [h1 EXCEPT ![old_head].prev = Some(n), ![n].next = Some(old_head)]
                 l2 == [l1 EXCEPT !.head = Some(n)]
             IN  [self |-> l2, heap |-> drop_unowned(l2, h2)]
        ELSE LET l2 == [l1 EXCEPT !.head = Some(n)]
             IN  [self |-> l2, heap |-> drop_unowned(l2, h1)]

\* LinkedList::push_front
doubly_push_front(self, h, elem) ==
  LET n  == alloc(self, h)
      h1 == heap_with(h, n, doubly_Node_new(elem))
      l1 == [self EXCEPT !.length = self.length + 1]
  IN  IF l1.head # None
        THEN LET old_head == l1.head[1]
                 h2 == [h1 EXCEPT ![old_head].prev = Some(n), ![n].next = Some(old_head)]
                 l2 == [l1 EXCEPT !.head = Some(n)]
             IN  [self |-> l2, heap |-> drop_unowned(l2, h2)]
        ELSE LET l2 == [l1 EXCEPT !.head = Some(n), !.tail = Some(n)]
             IN  [self |-> l2, heap |-> drop_unowned(l2, h1)]

\* Mutant of pop_front: popping the only node does not clear tail.
doubly_pop_front_keeps_tail(self, h) ==
  IF self.head = None
    THEN [self |-> self, heap |-> h, res |-> None, panic |-> FALSE]
    ELSE LET head_node == self.head[1]
             nxt == h[head_node].next
             h1  == [h EXCEPT ![head_node].next = None]
             h2  == IF nxt # None THEN [h1 EXCEPT ![nxt[1]].prev = None] ELSE h1
             l1  == [self EXCEPT !.head = nxt,
                                 !.length = saturating_sub(self.length, 1)]
             h3  == [m \in DOMAIN h2 \ {head_node} |-> h2[m]]
         IN  [self |-> l1, heap |-> drop_unowned(l1, h3),
              res |-> Some(h[head_node].data), panic |-> FALSE]

\* Mutant of pop_front: the counter is not decremented.
doubly_pop_front_no_count(self, h) ==
  IF self.head = None
    THEN [self |-> self, heap |-> h, res |-> None, panic |-> FALSE]
    ELSE LET head_node == self.head[1]
             nxt == h[head_node].next
             h1  == [h EXCEPT ![head_node].next = None]
             h2  == IF nxt # None THEN [h1 EXCEPT ![nxt[1]].prev = None] ELSE h1
             l1  == IF nxt # None
                      THEN [self EXCEPT !.head = nxt]
                      ELSE [self EXCEPT !.head = None, !.tail = None]
             h3  == [m \in DOMAIN h2 \ {head_node} |-> h2[m]]
         IN  [self |-> l1, heap |-> drop_unowned(l1, h3),
              res |-> Some(h[head_node].data), panic |-> FALSE]

\* LinkedList::pop_front
doubly_pop_front(self, h) ==
  IF self.head = None
    THEN [self |-> self, heap |-> h, res |-> None, panic |-> FALSE]
    ELSE LET head_node == self.head[1]
             nxt == h[head_node].next
             h1  == [h EXCEPT ![head_node].next = None]
             h2  == IF nxt # None THEN [h1 EXCEPT ![nxt[1]].prev = None] ELSE h1
             l1  == IF nxt # None
                      THEN [self EXCEPT !.head = nxt]
                      ELSE [self EXCEPT !.head = None, !.tail = None]
             \* Rc::try_unwrap(head_node): the local is the only owner?
             sole == strong_count(l1, h2, head_node) = 0
         IN  IF sole
               THEN LET l2 == [l1 EXCEPT !.length = saturating_sub(l1.length, 1)]
                        h3 == [m \in DOMAIN h2 \ {head_node} |-> h2[m]]
                    IN  [self |-> l2, heap |-> drop_unowned(l2, h3),
                         res |-> Some(h[head_node].data), panic |-> FALSE]
               ELSE [self |-> l1, heap |-> h2, res |-> None, panic |-> TRUE]

\* Mutant of push_back: the old tail's next link is not set to the new node.
doubly_push_back_unlinked(self, h, elem) ==
  LET n  == alloc(self, h)
      h1 == heap_with(h, n, doubly_Node_new(elem))
      l1 == [self EXCEPT !.length = self.length + 1, !.tail = Some(n)]
  IN  IF self.tail # None
        THEN [self |-> l1, heap |-> drop_unowned(l1, h1)]
        ELSE LET l2 == [l1 EXCEPT !.head = Some(n)]
             IN  [self |-> l2, heap |-> drop_unowned(l2, h1)]

\* LinkedList::push_back
doubly_push_back(self, h, elem) ==
  LET n  == alloc(self, h)
      h1 == heap_with(h, n, doubly_Node_new(elem))
      l1 == [self EXCEPT !.length = self.length + 1, !.tail = Some(n)]
  IN  IF self.tail # None
        THEN LET old_tail == upgrade(h1, self.tail)
             IN  IF old_tail # None
                   THEN LET h2 == [h1 EXCEPT ![old_tail[1]].next = Some(n),
                                             ![n].prev = self.tail]
                        IN  [self |-> l1, heap |-> drop_unowned(l1, h2)]
                   ELSE [self |-> l1, heap |-> drop_unowned(l1, h1)]
        ELSE LET l2 == [l1 EXCEPT !.head = Some(n)]
             IN  [self |-> l2, heap |-> drop_unowned(l2, h1)]

\* Mutant of pop_back: the predecessor's next link is not cleared.
doubly_pop_back_keeps_link(self, h) ==
  LET l1 == IF self.tail # None
              THEN [self EXCEPT !.length = saturating_sub(self.length, 1)]
              ELSE self
      l2 == [l1 EXCEPT !.tail = None]
      old_tail == IF self.tail = None THEN None ELSE upgrade(h, self.tail)
  IN  IF old_tail = None
        THEN [self |-> l2, heap |-> h, res |-> None, panic |-> FALSE]
        ELSE LET t  == old_tail[1]
                 prev_node == IF h[t].prev = None THEN None ELSE upgrade(h, h[t].prev)
                 h2 == [h EXCEPT ![t].prev = None]
                 l3 == IF prev_node # None
                         THEN [l2 EXCEPT !.tail = prev_node]
                         ELSE [l2 EXCEPT !.head = None]
                 sole == strong_count(l3, h2, t) = 0
             IN  IF sole
                   THEN LET l4 == [l3 EXCEPT !.length = saturating_sub(l3.length, 1)]
                            h3 == [m \in DOMAIN h2 \ {t} |-> h2[m]]
                        IN  [self |-> l4, heap |-> drop_unowned(l4, h3),
                             res |-> Some(h[t].data), panic |-> FALSE]
                   ELSE [self |-> l3, heap |-> drop_unowned(l3, h2),
                         res |-> None, panic |-> FALSE]

\* LinkedList::pop_back
doubly_pop_back(self, h) ==
  LET l1 == IF self.tail # None
              THEN [self EXCEPT !.length = saturating_sub(self.length, 1)]
              ELSE self
      l2 == [l1 EXCEPT !.tail = None]
      old_tail == IF self.tail = None THEN None ELSE upgrade(h, self.tail)
  IN  IF old_tail = None
        THEN [self |-> l2, heap |-> h, res |-> None, panic |-> FALSE]
        ELSE LET t  == old_tail[1]
                 prev_node == IF h[t].prev = None THEN None ELSE upgrade(h, h[t].prev)
                 h1 == [h EXCEPT ![t].prev = None]
                 h2 == IF prev_node # None
                         THEN [h1 EXCEPT ![prev_node[1]].next = None]
                         ELSE h1
                 l3 == IF prev_node # None
                         THEN [l2 EXCEPT !.tail = prev_node]
                         ELSE [l2 EXCEPT !.head = None]
                 \* Rc::try_unwrap(old_tail).ok(): the local is the only owner?
                 sole == strong_count(l3, h2, t) = 0
             IN  IF sole
                   THEN LET l4 == [l3 EXCEPT !.length = saturating_sub(l3.length, 1)]
                            h3 == [m \in DOMAIN h2 \ {t} |-> h2[m]]
                        IN  [self |-> l4, heap |-> drop_unowned(l4, h3),
                             res |-> Some(h[t].data), panic |-> FALSE]
                   ELSE [self |-> l3, heap |-> drop_unowned(l3, h2),
                         res |-> None, panic |-> FALSE]

\* LinkedList::len
doubly_len(self) == self.length

\* Mutant of clear: tail and length are reset, head is left in place.
doubly_clear_keeps_head(self, h) ==
  [self |-> [self EXCEPT !.tail = None, !.length = 0], heap |-> h]

\* LinkedList::clear: the old list value is dropped, its chain with it.
doubly_clear(self, h) ==
  [self |-> doubly_new, heap |-> drop_unowned(doubly_new, h)]

\* ============================================================ the state machine

EmptyHeap == [n \in {} |-> doubly_Node_new(0)]

\* A caller that has just constructed one of the two lists with new().
Init ==
  /\ lib \in {"single", "doubly"}
  /\ slist = single_new
  /\ iter = None
  /\ it_out = <<>>
  /\ dlist = doubly_new
  /\ heap = EmptyHeap
  /\ panicked = FALSE
  /\ op = "new"
  /\ ret = None
  /\ pre = IF lib = "single" THEN single_new ELSE doubly_new
  /\ model = <<>>
  /\ m_ret = None
  /\ count = 0
  /\ dr_mode = "none"
  /\ dr_in = <<>>
  /\ dr_out = <<>>
  /\ drop_depth = 0

dvars == <<dlist, heap, panicked>>
svars == <<slist, iter, it_out>>
drvars == <<dr_mode, dr_in, dr_out>>

\* What the abstract sequence does on a removal at the front / at the back.
front_of(q) == IF q = <<>> THEN None ELSE Some(Head(q))
back_of(q) == IF q = <<>> THEN None ELSE Some(q[Len(q)])
drop_front(q) == IF q = <<>> THEN q ELSE Tail(q)
drop_back(q) == IF q = <<>> THEN q ELSE SubSeq(q, 1, Len(q) - 1)

\* A mutating call on the singly list needs &mut self: no iterator is alive.
SingleCall == lib = "single" /\ dr_mode = "none" /\ iter = None
SingleRoom == single_nodes(slist.head) < MaxLen /\ slist.length < MaxLen

Push(v) ==
  /\ SingleCall /\ SingleRoom
  /\ slist' = single_push(slist, v)
  /\ op' = "push" /\ ret' = None /\ pre' = slist
  /\ model' = <<v>> \o model /\ m_ret' = None /\ count' = count + 1
  /\ drop_depth' = 0
  /\ UNCHANGED <<lib, iter, it_out, dvars, drvars>>

AppendElem(v) ==
  /\ SingleCall /\ SingleRoom
  /\ slist' = single_append(slist, v)
  /\ op' = "append" /\ ret' = None /\ pre' = slist
  /\ model' = Append(model, v) /\ m_ret' = None /\ count' = count + 1
  /\ drop_depth' = 0
  /\ UNCHANGED <<lib, iter, it_out, dvars, drvars>>

Pop ==
  /\ SingleCall
  /\ LET r == single_pop(slist)
     IN  /\ slist' = r.self
         /\ ret' = r.res
         /\ count' = IF r.res # None THEN count - 1 ELSE count
  /\ op' = "pop" /\ pre' = slist
  /\ model' = drop_front(model) /\ m_ret' = front_of(model)
  /\ drop_depth' = single_taken_drop_depth(ret')
  /\ UNCHANGED <<lib, iter, it_out, dvars, drvars>>

PopBack ==
  /\ SingleCall
  /\ LET r == single_pop_back(slist)
     IN  /\ slist' = r.self
         /\ ret' = r.res
         /\ count' = IF r.res # None THEN count - 1 ELSE count
  /\ op' = "pop_back" /\ pre' = slist
  /\ model' = drop_back(model) /\ m_ret' = back_of(model)
  /\ drop_depth' = single_taken_drop_depth(ret')
  /\ UNCHANGED <<lib, iter, it_out, dvars, drvars>>

Clear ==
  /\ SingleCall
  /\ slist' = single_clear(slist)
  /\ op' = "clear" /\ ret' = None /\ pre' = slist
  /\ model' = <<>> /\ m_ret' = None /\ count' = 0
  /\ drop_depth' = single_drop_depth(slist.head)
  /\ UNCHANGED <<lib, iter, it_out, dvars, drvars>>

\* list.iter(): a fresh iterator (one in use before is dropped).
IterNew ==
  /\ lib = "single" /\ dr_mode = "none"
  /\ iter' = Some(single_iter(slist))
  /\ it_out' = <<>>
  /\ UNCHANGED <<lib, slist, dvars, op, ret, pre, model, m_ret, count, drvars, drop_depth>>

\* iter.next(), called at most MaxNones times after the iterator ran out.
IterNext ==
  /\ lib = "single" /\ iter # None
  /\ Cardinality({i \in 1..Len(it_out) : it_out[i] = None}) < MaxNones
  /\ LET r == Iter_next(iter[1])
     IN  /\ iter' = Some(r.it)
         /\ it_out' = Append(it_out, r.res)
  /\ UNCHANGED <<lib, slist, dvars, op, ret, pre, model, m_ret, count, drvars, drop_depth>>

\* The iterator goes out of scope, ending the borrow.
IterDrop ==
  /\ lib = "single" /\ iter # None
  /\ iter' = None
  /\ it_out' = <<>>
  /\ UNCHANGED <<lib, slist, dvars, op, ret, pre, model, m_ret, count, drvars, drop_depth>>

DoublyCall == lib = "doubly" /\ ~panicked
DoublyRoom ==
  /\ Cardinality(DOMAIN heap) < MaxLen
  /\ dlist.length < MaxLen
  /\ free_ids(dlist, heap) # {}

PushFront(v) ==
  /\ DoublyCall /\ DoublyRoom
  /\ LET r == doubly_push_front(dlist, heap, v)
     IN  dlist' = r.self /\ heap' = r.heap
  /\ op' = "push_front" /\ ret' = None /\ pre' = dlist
  /\ model' = <<v>> \o model /\ m_ret' = None /\ count' = count + 1
  /\ drop_depth' = 0
  /\ UNCHANGED <<lib, svars, panicked, drvars>>

PushBack(v) ==
  /\ DoublyCall /\ DoublyRoom
  /\ LET r == doubly_push_back(dlist, heap, v)
     IN  dlist' = r.self /\ heap' = r.heap
  /\ op' = "push_back" /\ ret' = None /\ pre' = dlist
  /\ model' = Append(model, v) /\ m_ret' = None /\ count' = count + 1
  /\ drop_depth' = 0
  /\ UNCHANGED <<lib, svars, panicked, drvars>>

PopFront ==
  /\ DoublyCall
  /\ LET r == doubly_pop_front(dlist, heap)
     IN  /\ dlist' = r.self /\ heap' = r.heap /\ panicked' = r.panic
         /\ ret' = r.res
         /\ count' = IF r.res # None THEN count - 1 ELSE count
  /\ op' = "pop_front" /\ pre' = dlist
  /\ model' = drop_front(model) /\ m_ret' = front_of(model)
  /\ drop_depth' = doubly_unwrapped_drop_depth(ret')
  /\ UNCHANGED <<lib, svars, drvars>>

DPopBack ==
  /\ DoublyCall
  /\ LET r == doubly_pop_back(dlist, heap)
     IN  /\ dlist' = r.self /\ heap' = r.heap /\ panicked' = r.panic
         /\ ret' = r.res
         /\ count' = IF r.res # None THEN count - 1 ELSE count
  /\ op' = "pop_back" /\ pre' = dlist
  /\ model' = drop_back(model) /\ m_ret' = back_of(model)
  /\ drop_depth' = doubly_unwrapped_drop_depth(ret')
  /\ UNCHANGED <<lib, svars, drvars>>

DClear ==
  /\ DoublyCall
  /\ LET r == doubly_clear(dlist, heap)
     IN  dlist' = r.self /\ heap' = r.heap
  /\ op' = "clear" /\ ret' = None /\ pre' = dlist
  /\ model' = <<>> /\ m_ret' = None /\ count' = 0
  /\ drop_depth' = doubly_drop_depth(doubly_new, heap)
  /\ UNCHANGED <<lib, svars, panicked, drvars>>

Next ==
  \/ \E v \in Values : Push(v)
  \/ \E v \in Values : AppendElem(v)
  \/ Pop
  \/ PopBack
  \/ Clear
  \/ IterNew
  \/ IterNext
  \/ IterDrop
  \/ \E v \in Values : PushFront(v)
  \/ \E v \in Values : PushBack(v)
  \/ PopFront
  \/ DPopBack
  \/ DClear

Spec == Init /\ [][Next]_vars

\* ------------------------------------------------- the drain scenario
\* A caller that fills a new singly list with one kind of insertion and then
\* only pops, one call more than it inserted.
InitDrain ==
  /\ lib = "single"
  /\ slist = single_new
  /\ iter = None
  /\ it_out = <<>>
  /\ dlist = doubly_new
  /\ heap = EmptyHeap
  /\ panicked = FALSE
  /\ op = "new"
  /\ ret = None
  /\ pre = single_new
  /\ model = <<>>
  /\ m_ret = None
  /\ count = 0
  /\ dr_mode \in {"append", "push"}
  /\ dr_in = <<>>
  /\ dr_out = <<>>
  /\ drop_depth = 0

DrainInsert(v) ==
  /\ dr_mode # "none" /\ dr_out = <<>> /\ Len(dr_in) < MaxLen
  /\ slist' = IF dr_mode = "append" THEN single_append(slist, v) ELSE single_push(slist, v)
  /\ dr_in' = Append(dr_in, v)
  /\ drop_depth' = 0
  /\ UNCHANGED <<lib, iter, it_out, dvars, op, ret, pre, model, m_ret, count,
                 dr_mode, dr_out>>

DrainPop ==
  /\ dr_mode # "none" /\ Len(dr_out) <= Len(dr_in)
  /\ LET r == single_pop(slist)
     IN  slist' = r.self /\ dr_out' = Append(dr_out, r.res)
  /\ drop_depth' = single_taken_drop_depth(single_pop(slist).res)
  /\ UNCHANGED <<lib, iter, it_out, dvars, op, ret, pre, model, m_ret, count,
                 dr_mode, dr_in>>

NextDrain == (\E v \in Values : DrainInsert(v)) \/ DrainPop

SpecDrain == InitDrain /\ [][NextDrain]_vars

\* ============================================================ claims

Pops == {"pop", "pop_back", "pop_front"}

\* C1: doubly list: len() equals the number of pushes minus the number of pops
\* that returned Some, after every sequence of calls starting from new().
C1_LenIsPushesMinusPops == lib = "doubly" => doubly_len(dlist) = count

\* C2: singly list: len() equals the number of nodes reachable from head by
\* next links, in every reachable state.
C2_SingleLenCountsNodes == lib = "single" => single_len(slist) = single_nodes(slist.head)

\* C3: doubly list: 'head is None', 'length == 0' and 'tail is None' are all
\* true or all false, in every reachable state.
C3_DoublyEmptyAgree ==
  lib = "doubly" =>
    /\ (dlist.head = None) <=> (dlist.length = 0)
    /\ (dlist.length = 0) <=> (dlist.tail = None)

\* C4: singly list: is_empty() is true if and only if the list holds no
\* elements (head is None).
C4_IsEmptyIffNoElements ==
  lib = "single" => (single_is_empty(slist) <=> slist.head = None)

\* C5: doubly list refines a double-ended queue: after every call the elements
\* head to tail are the abstract sequence, and the call returned what the
\* abstract sequence returns (None from a pop exactly when it was empty).
C5_DoublyIsDeque ==
  lib = "doubly" => /\ doubly_elems(dlist, heap) = model
                    /\ ret = m_ret

\* C5 witness: pops at both ends have happened and returned elements of a list
\* built from both ends.
C5_Witness ==
  /\ lib = "doubly" /\ op = "pop_back" /\ ret = Some(2)
  /\ model = <<2, 1>> /\ doubly_elems(dlist, heap) = <<2, 1>>

\* C6: singly list refines a sequence: push prepends, append appends, pop
\* removes the first and pop_back the last element, each pop returning None
\* exactly when the sequence is empty.
C6_SingleIsSequence ==
  lib = "single" => /\ single_elems(slist.head) = model
                    /\ ret = m_ret

\* C6 witness: pop_back on a single-node list detached head itself.
C6_Witness ==
  /\ lib = "single" /\ op = "pop_back"
  /\ single_nodes(pre.head) = 1 /\ slist.head = None /\ ret = Some(pre.head[1].data)

\* C7: underflow is a no-op: a pop on a list that holds no nodes returns None
\* and leaves head, tail and length as they were; length is never negative.
C7_UnderflowIsNoOp ==
  /\ (lib = "single" /\ op \in Pops /\ pre.head = None) => (ret = None /\ slist = pre)
  /\ (lib = "doubly" /\ op \in Pops /\ pre.head = None) => (ret = None /\ dlist = pre)
  /\ slist.length >= 0
  /\ dlist.length >= 0

\* C7 witness: pop_back was called on a doubly list that holds no nodes.
C7_Witness ==
  /\ lib = "doubly" /\ op = "pop_back" /\ pre.head = None
  /\ ret = None /\ dlist = pre

\* Position i of the pops of a drain of n inserted values: the value the
\* insertion order puts there, then None.
drained(i) ==
  IF i > Len(dr_in) THEN None
  ELSE IF dr_mode = "append" THEN Some(dr_in[i])
  ELSE Some(dr_in[Len(dr_in) + 1 - i])

\* C8: singly list drain: n appends then pops yield the values in insertion
\* order and then None; n pushes then pops yield them in reverse order and
\* then None.
C8_DrainRoundTrip ==
  dr_mode # "none" => \A i \in 1..Len(dr_out) : dr_out[i] = drained(i)

\* C8 witness: a full drain, one pop more than the pushes, of values that are
\* not the same read backwards.
C8_Witness ==
  /\ dr_mode = "push" /\ Len(dr_in) = MaxLen /\ Len(dr_out) = MaxLen + 1
  /\ dr_in[1] # dr_in[MaxLen]

\* C9: clear() leaves either list exactly as new() makes it (len() 0, head
\* None, tail None, nothing allocated), and a pop on such a list returns None.
C9_ClearIsNew ==
  /\ (lib = "single" /\ op = "clear") =>
        (slist = single_new /\ single_len(slist) = 0 /\ slist.head = None)
  /\ (lib = "doubly" /\ op = "clear") =>
        (dlist = doubly_new /\ doubly_len(dlist) = 0 /\ heap = EmptyHeap)
  /\ (lib = "single" /\ op \in Pops /\ pre = single_new) => ret = None
  /\ (lib = "doubly" /\ op \in Pops /\ pre = doubly_new) => ret = None

\* C9 witness: clear() was called on a singly list that a pop_back had left
\* with fewer nodes than its length counter says.
C9_Witness ==
  /\ lib = "single" /\ op = "clear"
  /\ pre.head # None /\ pre.length # single_nodes(pre.head)
  /\ slist = single_new

\* C10: singly list iteration: the k-th call of next() on an iterator returns
\* a reference to the k-th element head to tail, and None once the n elements
\* are used up, however often it is called again; every fresh iter() starts
\* from the head.
C10_IterYieldsElemsInOrder ==
  (lib = "single" /\ iter # None) =>
    LET e == single_elems(slist.head)
    IN  \A k \in 1..Len(it_out) :
          it_out[k] = IF k <= Len(e) THEN Some(e[k]) ELSE None

\* C10 witness: an iterator over a list of at least two elements, not all the
\* same, has returned them all and then None twice.
C10_Witness ==
  /\ lib = "single" /\ iter # None
  /\ single_nodes(slist.head) >= 2
  /\ slist.head[1].data # slist.head[1].next[1].data
  /\ Len(it_out) = single_nodes(slist.head) + 2

\* The rendering of a sequence of elements: each one's debug form and an arrow.
RECURSIVE arrows(_)
arrows(q) == IF q = <<>> THEN "" ELSE debug_fmt(Head(q)) \o " -> " \o arrows(Tail(q))

\* C11: singly list Debug rendering: each element's debug form followed by
\* " -> ", head to tail, then "End" (an empty list renders "End"); push puts
\* the new element first in the rendering and append puts it last.
C11_DebugRendering ==
  lib = "single" =>
    /\ single_fmt(slist) = arrows(model) \o "End"
    /\ model = <<>> => single_fmt(slist) = "End"
    /\ op = "push" =>
         single_fmt(slist) = debug_fmt(Head(model)) \o " -> " \o single_fmt(pre)
    /\ op = "append" =>
         single_fmt(slist) = arrows(single_elems(pre.head))
                               \o debug_fmt(model[Len(model)]) \o " -> " \o "End"

\* C11 witness: a list built by push and append renders as the tests expect.
C11_Witness ==
  /\ lib = "single" /\ op = "append"
  /\ single_fmt(pre) = "2 -> 1 -> End"
  /\ single_fmt(slist) = "2 -> 1 -> 2 -> End"

\* C12: doubly list link consistency: for every node N whose next link is
\* node M, M's prev link resolves to N; the head node's prev link is None; the
\* tail node's next link is None.
C12_LinksConsistent ==
  lib = "doubly" =>
    /\ \A n \in DOMAIN heap :
         heap[n].next # None =>
           LET m == heap[n].next[1]
           IN  /\ m \in DOMAIN heap
               /\ heap[m].prev # None
               /\ upgrade(heap, heap[m].prev) = Some(n)
    /\ dlist.head # None => heap[dlist.head[1]].prev = None
    /\ (dlist.tail # None /\ upgrade(heap, dlist.tail) # None) =>
         heap[dlist.tail[1]].next = None

\* C12 witness: two linked nodes are left after nodes were pushed at both ends
\* and one was popped from the front.
C12_Witness ==
  /\ lib = "doubly" /\ op = "pop_front" /\ ret # None
  /\ Cardinality(DOMAIN heap) = 2
  /\ heap[dlist.head[1]].next = dlist.tail
  /\ heap[dlist.tail[1]].prev = dlist.head

\* The nodes reachable from node n by one or more next links.
owned_from(n) ==
  LET c == doubly_chain(heap, heap[n].next, Cardinality(DOMAIN heap))
  IN  {c[i] : i \in 1..Len(c)}

\* C13: doubly list single ownership: between operations every live node has
\* exactly one strong reference (the list's head or its predecessor's next
\* link) and no node owns itself through next links; so the unwrap in
\* pop_front never panics and pop_back on a non-empty list never returns None.
C13_SingleOwnership ==
  lib = "doubly" =>
    /\ \A n \in DOMAIN heap : strong_count(dlist, heap, n) = 1
    /\ \A n \in DOMAIN heap : n \notin owned_from(n)
    /\ ~panicked
    /\ (op = "pop_back" /\ pre.head # None) => ret # None

\* C13 witness: pop_back on a three-node list unwrapped the tail node and left
\* two nodes, each with one owner.
C13_Witness ==
  /\ lib = "doubly" /\ op = "pop_back" /\ pre.head # None /\ ret # None
  /\ Cardinality(DOMAIN heap) = 2
  /\ \A n \in DOMAIN heap : strong_count(dlist, heap, n) = 1

\* The nodes reachable from head by next links.
chain_nodes ==
  LET c == doubly_chain(heap, dlist.head, Cardinality(DOMAIN heap))
  IN  {c[i] : i \in 1..Len(c)}

\* What the tail and the prev links resolve to.
resolved_weaks ==
  {n \in DOMAIN heap :
     \/ dlist.tail = Some(n)
     \/ \E m \in DOMAIN heap : heap[m].prev = Some(n)}

\* C14: doubly list, no leak and no dangling node: after every operation the
\* allocated nodes are exactly the nodes reachable from head; a node removed
\* by pop_front or pop_back, and every node of a cleared list, is freed when
\* the operation returns; no prev link or tail resolves outside the chain.
C14_NoLeakNoDangling ==
  lib = "doubly" =>
    /\ DOMAIN heap = chain_nodes
    /\ resolved_weaks \subseteq chain_nodes
    /\ (op = "pop_front" /\ ret # None) => pre.head[1] \notin DOMAIN heap
    /\ (op = "pop_back" /\ ret # None) => pre.tail[1] \notin DOMAIN heap
    /\ op = "clear" => heap = EmptyHeap

\* C14 witness: clear() was called on a list of at least two nodes and nothing
\* stays allocated.
C14_Witness ==
  /\ lib = "doubly" /\ op = "clear"
  /\ pre.head # None /\ pre.tail # pre.head
  /\ heap = EmptyHeap

\* The node ids from head on, in order.
chain_seq == doubly_chain(heap, dlist.head, Cardinality(DOMAIN heap))

\* C15: doubly list end references: head is None iff tail is None; on a
\* non-empty list tail resolves to the last node reachable from head; a pop at
\* either end of a single-element list clears both head and tail; a push at
\* either end of an empty list makes the new node both head and tail.
C15_EndReferences ==
  lib = "doubly" =>
    /\ (dlist.head = None) <=> (dlist.tail = None)
    /\ dlist.head # None =>
         (chain_seq # <<>> /\ upgrade(heap, dlist.tail) = Some(chain_seq[Len(chain_seq)]))
    /\ (op \in {"pop_front", "pop_back"} /\ pre.head # None /\ pre.head = pre.tail) =>
         (dlist.head = None /\ dlist.tail = None)
    /\ (op \in {"push_front", "push_back"} /\ pre.head = None) =>
         (dlist.head # None /\ dlist.tail = dlist.head)

\* C15 witness: pop_front on a single-element list left head and tail None.
C15_Witness ==
  /\ lib = "doubly" /\ op = "pop_front" /\ ret # None
  /\ pre.head # None /\ pre.head = pre.tail
  /\ dlist.head = None /\ dlist.tail = None

\* C17: push_back never loses an element: whenever tail is Some it upgrades,
\* so push_back's branch for a dead old tail is never taken; after
\* push_back(v) the new node holds v, is reachable from head, is the last node
\* and is the node tail refers to.
C17_PushBackKeepsElement ==
  lib = "doubly" =>
    /\ dlist.tail # None => upgrade(heap, dlist.tail) # None
    /\ op = "push_back" =>
         /\ chain_seq # <<>>
         /\ Len(chain_seq) = Len(model)
         /\ dlist.tail = Some(chain_seq[Len(chain_seq)])
         /\ dlist.tail # pre.tail
         /\ heap[chain_seq[Len(chain_seq)]].data = model[Len(model)]
         /\ heap[chain_seq[Len(chain_seq)]].next = None

\* C17 witness: push_back on a list whose tail was Some made a chain of three.
C17_Witness ==
  /\ lib = "doubly" /\ op = "push_back" /\ pre.tail # None
  /\ Len(chain_seq) = 3
  /\ dlist.tail = Some(chain_seq[3])

\* C18: singly list length never under-counts: len() is at least the number
\* of nodes reachable from head; so is_empty() implies head is None, and the
\* saturating subtraction in pop never saturates.
C18_SingleLenNeverUnder ==
  lib = "single" =>
    /\ single_len(slist) >= single_nodes(slist.head)
    /\ single_is_empty(slist) => slist.head = None
    /\ (op = "pop" /\ ret # None) =>
         (pre.length >= 1 /\ slist.length = pre.length - 1)

\* C18 witness: pop took a node from a list whose counter was already too
\* high, and the counter is still above the number of nodes.
C18_Witness ==
  /\ lib = "single" /\ op = "pop" /\ ret # None
  /\ pre.length > single_nodes(pre.head)
  /\ slist.length > single_nodes(slist.head)

\* C19: doubly list length never over-counts: len() is at most the number of
\* nodes reachable from head; so len() is 0 whenever head is None.
C19_DoublyLenNeverOver ==
  lib = "doubly" =>
    /\ doubly_len(dlist) <= Len(chain_seq)
    /\ dlist.head = None => doubly_len(dlist) = 0

\* C19 witness: after a pop_back the counter is below the number of nodes.
C19_Witness ==
  /\ lib = "doubly" /\ op = "pop_back" /\ ret # None
  /\ doubly_len(dlist) < Len(chain_seq)

\* C16: destruction is iterative in both lists: clear() releases the chain
\* one detached head node at a time, so node destructors never nest deeper
\* than one level, however many nodes the list holds.
C16_ClearIsIterative == op = "clear" => drop_depth <= 1

====
